---- MODULE Spec2Model ----
(***************************************************************************)
(* Model of the authentication / session-token subsystem of my_contacts:  *)
(* services/auth.py (token issue and decode), routes/auth.py (signup,     *)
(* login, refresh, email confirmation), routes/users.py (password reset)  *)
(* and repository/users.py (the users table).                             *)
(*                                                                         *)
(* A JSON Web Token is a deterministic function of its claims and of the  *)
(* signing key (HS256), and python-jose writes datetime claims as whole   *)
(* seconds.  A token is therefore modelled by its claim set plus a tag    *)
(* telling whether the signature verifies; two tokens are the same string *)
(* exactly when the records are equal.                                     *)
(***************************************************************************)
EXTENDS Integers, FiniteSets, Sequences, TLC

VARIABLES users, now, issued, resp, rotated, inflight, outcome, contacts, lastId

vars == <<users, now, issued, resp, rotated, inflight, outcome, contacts, lastId>>

\* The users table with the tokens and requests around it, and the contacts
\* table with its id sequence.
authVars == <<users, now, issued, resp, rotated, inflight, outcome>>
contactVars == <<contacts, lastId>>

----------------------------------------------------------------------------
(* Bounds of the model *)

MaxIssued == 3

(* Token lifetimes, in seconds *)

ACCESS_TTL == 1200
REFRESH_TTL == 432000
EMAIL_TTL == 432000
RESET_TTL == 600

Emails == {"a@x.io", "b@x.io"}
Passwords == {"password1", "password2"}

(* The signup forms sent: one per email, and one that asks for a username  *)
(* already taken.                                                           *)
SignupForms ==
    {[username |-> "anna", user_email |-> "a@x.io", password |-> "password1"],
     [username |-> "boris", user_email |-> "b@x.io", password |-> "password2"],
     [username |-> "anna", user_email |-> "b@x.io", password |-> "password2"]}
Reqs == {1, 2}

(* The instants the clock visits: the start, the next second, the second  *)
(* after an access token of the start has expired and the second after a   *)
(* refresh token of the start has expired.                                  *)
Instants == {0, 1, ACCESS_TTL + 1, REFRESH_TTL + 1}

None == [none |-> TRUE]

----------------------------------------------------------------------------
(* Password hashing: passlib CryptContext *)

get_password_hash(password) == [scheme |-> "bcrypt", plain |-> password]

verify_password(plain_password, hashed_password) ==
    hashed_password.plain = plain_password

\* pwd_context.verify raises UnknownHashError for a stored value that is not
\* a hash of one of its schemes.
hash_identified(hashed_password) == hashed_password.scheme = "bcrypt"

----------------------------------------------------------------------------
(* Token codec and issuer *)

jwt_encode(claims) == [payload |-> claims, sig |-> "valid"]

\* jwt.decode succeeds when the signature verifies and exp is not in the
\* past (python-jose raises ExpiredSignatureError when exp < now).
jwt_decodes(token, t) ==
    /\ token.sig = "valid"
    /\ ~(token.payload.exp < t)

\* create_email_token that gives every token the default lifetime.
create_email_token_default_only(data, expires_delta, t) ==
    jwt_encode([sub |-> data.sub, iat |-> t, exp |-> t + EMAIL_TTL])

create_email_token(data, expires_delta, t) ==
    LET expire == IF expires_delta # 0 THEN t + expires_delta ELSE t + EMAIL_TTL
    IN  jwt_encode([sub |-> data.sub, iat |-> t, exp |-> expire])

create_access_token(data, t) ==
    jwt_encode([sub |-> data.sub, iat |-> t, exp |-> t + ACCESS_TTL,
                scope |-> "access_token"])

create_refresh_token(data, t) ==
    jwt_encode([sub |-> data.sub, iat |-> t, exp |-> t + REFRESH_TTL,
                scope |-> "refresh_token"])

\* Outcome of Auth.decode_refresh_token: the email, or the error raised.
decode_refresh_token(token, t) ==
    IF ~jwt_decodes(token, t)
      THEN [ok |-> FALSE, status |-> 401, detail |-> "Could not validate credentials"]
    ELSE IF "scope" \notin DOMAIN token.payload
      THEN [ok |-> FALSE, status |-> 500, detail |-> "Internal Server Error"]
    ELSE IF token.payload.scope = "refresh_token"
      THEN [ok |-> TRUE, email |-> token.payload.sub]
    ELSE [ok |-> FALSE, status |-> 401, detail |-> "Invalid scope for token"]

\* Outcome of Auth.get_email_from_token.
get_email_from_token(token, t) ==
    IF jwt_decodes(token, t)
      THEN [ok |-> TRUE, email |-> token.payload.sub]
      ELSE [ok |-> FALSE, status |-> 422,
            detail |-> "Invalid token for email verification"]

----------------------------------------------------------------------------
(* The users table *)

get_user_by_email(email, db) ==
    IF email \in DOMAIN db THEN db[email] ELSE None

update_token(email, token, db) ==
    [db EXCEPT ![email].refresh_token = token]

\* confirmed_email of the repository that sets the flag on every row.
repo_confirm_everyone(email, db) ==
    [e \in DOMAIN db |-> [db[e] EXCEPT !.confirmed = TRUE]]

repo_confirmed_email(email, db) ==
    [db EXCEPT ![email].confirmed = TRUE]

\* change_password that also clears the stored refresh token.
change_password_revoke(email, password, db) ==
    [db EXCEPT ![email].password = password, ![email].refresh_token = None]

change_password(email, password, db) ==
    [db EXCEPT ![email].password = password]

create_user(username, email, password, db) ==
    [e \in DOMAIN db \cup {email} |->
        IF e = email
          THEN [username |-> username, user_email |-> email,
                password |-> password, confirmed |-> FALSE,
                refresh_token |-> None]
          ELSE db[e]]

----------------------------------------------------------------------------
(* What a client holds.  issued keeps the refresh tokens and the email    *)
(* tokens handed out; login and refresh hand out the access token of the   *)
(* same subject and second together with each refresh token.  A client can *)
(* also present the claims of a token under a signature that does not      *)
(* verify.                                                                  *)

AccessOf(refresh) == create_access_token([sub |-> refresh.payload.sub], refresh.payload.iat)

IsRefresh(token) ==
    "scope" \in DOMAIN token.payload /\ token.payload.scope = "refresh_token"

IsAccess(token) ==
    "scope" \in DOMAIN token.payload /\ token.payload.scope = "access_token"

HandedOut == issued \cup {AccessOf(t) : t \in {r \in issued : IsRefresh(r)}}

Forged(token) == [token EXCEPT !.sig = "bad"]

Presentable == HandedOut \cup {Forged(t) : t \in issued}

CanIssue(new) == Cardinality(issued \cup new) <= MaxIssued

(* What a handler does on the table db at second t: the response, the     *)
(* table it leaves, and the tokens it hands out (sent).                    *)
Result(status, detail, db, sent, access, refresh, user) ==
    [status |-> status, detail |-> detail, db |-> db, sent |-> sent,
     access |-> access, refresh |-> refresh, user |-> user]

Raise(status, detail, db) == Result(status, detail, db, {}, None, None, None)

----------------------------------------------------------------------------
(* routes/auth.py *)

\* POST /auth/signup.  The confirmation mail (background task send_email)
\* issues an email token for the new user.
\* POST /auth/signup from the hashing of the password on (lines 39-43), on
\* the table as it is when the row is inserted.
register_user_create(username, email, password, db, t) ==
    LET hashed == get_password_hash(password)
        new_db == create_user(username, email, hashed, db)
        token_verification == create_email_token([sub |-> email], 0, t)
    IN
    IF email \in DOMAIN db \/ \E e \in DOMAIN db : db[e].username = username
      THEN \* unique constraints on user_email and username: IntegrityError
           \* out of db.commit()
           Raise(500, "Internal Server Error", db)
    ELSE Result(201, "User successfully created. Check your email for confirmation.",
                new_db, {token_verification}, None, None, new_db[email])

register_user(username, email, password, db, t) ==
    LET exist_user == get_user_by_email(email, db)
    IN
    IF exist_user # None
      THEN Raise(409, "User already exists", db)
      ELSE register_user_create(username, email, password, db, t)

\* login that looks at the confirmation flag before the password.
login_confirm_first(username, password, db, t) ==
    LET user == get_user_by_email(username, db)
        refresh_token == create_refresh_token([sub |-> username], t)
        new_db == update_token(username, refresh_token, db)
    IN
    IF user = None
      THEN Raise(401, "Incorrect username or password", db)
    ELSE IF ~user.confirmed
      THEN Raise(401, "Please confirm your account", db)
    ELSE IF ~verify_password(password, user.password)
      THEN Raise(401, "Incorrect username or password", db)
    ELSE Result(201, "bearer", new_db, {refresh_token},
                create_access_token([sub |-> username], t), refresh_token,
                new_db[username])

\* login that answers with tokens and leaves the stored refresh token alone.
login_no_store(username, password, db, t) ==
    LET user == get_user_by_email(username, db)
        refresh_token == create_refresh_token([sub |-> username], t)
    IN
    IF user = None \/ ~verify_password(password, user.password)
      THEN Raise(401, "Incorrect username or password", db)
    ELSE IF ~user.confirmed
      THEN Raise(401, "Please confirm your account", db)
    ELSE Result(201, "bearer", db, {refresh_token},
                create_access_token([sub |-> username], t), refresh_token, user)

\* login that stores the access token in place of the refresh token.
login_store_access(username, password, db, t) ==
    LET user == get_user_by_email(username, db)
        access_token == create_access_token([sub |-> username], t)
        refresh_token == create_refresh_token([sub |-> username], t)
        new_db == update_token(username, access_token, db)
    IN
    IF user = None \/ ~verify_password(password, user.password)
      THEN Raise(401, "Incorrect username or password", db)
    ELSE IF ~user.confirmed
      THEN Raise(401, "Please confirm your account", db)
    ELSE Result(201, "bearer", new_db, {refresh_token}, access_token, refresh_token,
                new_db[username])

\* login that does not look at the confirmation flag.
login_skip_confirmation(username, password, db, t) ==
    LET user == get_user_by_email(username, db)
        refresh_token == create_refresh_token([sub |-> username], t)
        new_db == update_token(username, refresh_token, db)
    IN
    IF user = None \/ ~verify_password(password, user.password)
      THEN Raise(401, "Incorrect username or password", db)
    ELSE Result(201, "bearer", new_db, {refresh_token},
                create_access_token([sub |-> username], t), refresh_token,
                new_db[username])

\* POST /auth/login
login(username, password, db, t) ==
    LET user == get_user_by_email(username, db)
        access_token == create_access_token([sub |-> username], t)
        refresh_token == create_refresh_token([sub |-> username], t)
        new_db == update_token(username, refresh_token, db)
    IN
    IF user # None /\ ~hash_identified(user.password)
      THEN Raise(500, "Internal Server Error", db)
    ELSE IF user = None \/ ~verify_password(password, user.password)
      THEN Raise(401, "Incorrect username or password", db)
    ELSE IF ~user.confirmed
      THEN Raise(401, "Please confirm your account", db)
    ELSE Result(201, "bearer", new_db, {refresh_token}, access_token, refresh_token,
                new_db[username])

\* rotate_token with the revocation left out of the mismatch branch.
rotate_token_no_revoke(token, email, user, db, t) ==
    LET new_refresh_token == create_refresh_token([sub |-> email], t)
    IN
    IF user = None
      THEN Raise(500, "Internal Server Error", db)
    ELSE IF user.refresh_token # token
      THEN Raise(401, "Invalid refresh token", db)
    ELSE Result(200, "", update_token(email, new_refresh_token, db),
                {new_refresh_token}, create_access_token([sub |-> email], t),
                new_refresh_token, None)

\* rotate_token that answers with new tokens and does not store the new one.
rotate_token_no_store(token, email, user, db, t) ==
    LET new_refresh_token == create_refresh_token([sub |-> email], t)
    IN
    IF user = None
      THEN Raise(500, "Internal Server Error", db)
    ELSE IF user.refresh_token # token
      THEN Raise(401, "Invalid refresh token", update_token(email, None, db))
    ELSE Result(200, "", db, {new_refresh_token},
                create_access_token([sub |-> email], t), new_refresh_token, None)

\* rotate_token that accepts a token stored in the record of any user.
rotate_token_any_holder(token, email, user, db, t) ==
    LET new_refresh_token == create_refresh_token([sub |-> email], t)
    IN
    IF user = None
      THEN Raise(500, "Internal Server Error", db)
    ELSE IF \A e \in DOMAIN db : db[e].refresh_token # token
      THEN Raise(401, "Invalid refresh token", update_token(email, None, db))
    ELSE Result(200, "", update_token(email, new_refresh_token, db),
                {new_refresh_token}, create_access_token([sub |-> email], t),
                new_refresh_token, None)

\* GET /auth/refresh_token, from the comparison with the stored token on:
\* user is the row the handler has read.
rotate_token(token, email, user, db, t) ==
    LET new_access_token == create_access_token([sub |-> email], t)
        new_refresh_token == create_refresh_token([sub |-> email], t)
    IN
    IF user = None
      THEN \* user.refresh_token on None: AttributeError
           Raise(500, "Internal Server Error", db)
    ELSE IF user.refresh_token # token
      THEN Raise(401, "Invalid refresh token", update_token(email, None, db))
    ELSE Result(200, "", update_token(email, new_refresh_token, db),
                {new_refresh_token}, new_access_token, new_refresh_token, None)

\* get_refresh_token that also revokes when the token is refused at decode.
get_refresh_token_revoke_on_error(token, db, t) ==
    LET decoded == decode_refresh_token(token, t)
        sub == token.payload.sub
    IN
    IF ~decoded.ok
      THEN Raise(decoded.status, decoded.detail,
                 IF sub \in DOMAIN db THEN update_token(sub, None, db) ELSE db)
      ELSE rotate_token(token, decoded.email,
                        get_user_by_email(decoded.email, db), db, t)

\* GET /auth/refresh_token
get_refresh_token(token, db, t) ==
    LET decoded == decode_refresh_token(token, t)
    IN
    IF ~decoded.ok
      THEN Raise(decoded.status, decoded.detail, db)
      ELSE rotate_token(token, decoded.email,
                        get_user_by_email(decoded.email, db), db, t)

\* confirmed_email that refuses a user who is confirmed already.
confirmed_email_once(token, db, t) ==
    LET decoded == get_email_from_token(token, t)
        user == get_user_by_email(decoded.email, db)
    IN
    IF ~decoded.ok
      THEN Raise(decoded.status, decoded.detail, db)
    ELSE IF user = None \/ user.confirmed
      THEN Raise(400, "Verification error", db)
    ELSE Raise(200, "Your email is confirmed", repo_confirmed_email(decoded.email, db))

\* GET /auth/confirmed_email/{token}
confirmed_email(token, db, t) ==
    LET decoded == get_email_from_token(token, t)
        email == decoded.email
        user == get_user_by_email(email, db)
    IN
    IF ~decoded.ok
      THEN Raise(decoded.status, decoded.detail, db)
    ELSE IF user = None
      THEN Raise(400, "Verification error", db)
    ELSE IF user.confirmed
      THEN Raise(200, "Your email is already confirmed", db)
    ELSE Raise(200, "Your email is confirmed", repo_confirmed_email(email, db))

----------------------------------------------------------------------------
(* routes/users.py *)

\* POST /users/forgot_password.  The reset mail (background task
\* send_reset_password_email) issues an email token that lives RESET_TTL.
forgot_password(user_email, db, t) ==
    LET user == get_user_by_email(user_email, db)
        token_verification == create_email_token([sub |-> user_email], RESET_TTL, t)
    IN
    IF user = None
      THEN Raise(500, "An unexpected error occurred.", db)
      ELSE Result(200, "Check your email for reset password.", db,
                  {token_verification}, None, None, user)

\* POST /users/reset_password/{token}
reset_password_post(token, new_password, db, t) ==
    LET decoded == get_email_from_token(token, t)
        email == decoded.email
        user == get_user_by_email(email, db)
        hashed == get_password_hash(new_password)
        new_db == change_password(email, hashed, db)
    IN
    IF ~decoded.ok
      THEN Raise(decoded.status, decoded.detail, db)
    ELSE IF user = None
      THEN \* user.password on None: AttributeError
           Raise(500, "Internal Server Error", db)
    ELSE Result(201, "Password was changed successfully", new_db, {}, None, None,
                new_db[email])

----------------------------------------------------------------------------
(* services/auth.py: the dependency of every protected route *)

\* get_current_user without the scope check.
get_current_user_any_scope(token, db, t) ==
    IF ~jwt_decodes(token, t) \/ get_user_by_email(token.payload.sub, db) = None
      THEN Raise(401, "Could not validate credentials for this user", db)
      ELSE Result(200, "", db, {}, None, None, get_user_by_email(token.payload.sub, db))

get_current_user(token, db, t) ==
    LET credentials_exception ==
            Raise(401, "Could not validate credentials for this user", db)
    IN
    IF ~jwt_decodes(token, t)
      THEN credentials_exception
    ELSE IF "scope" \notin DOMAIN token.payload
      THEN \* payload["scope"]: KeyError, not a JWTError
           Raise(500, "Internal Server Error", db)
    ELSE IF token.payload.scope # "access_token"
      THEN credentials_exception
    ELSE IF get_user_by_email(token.payload.sub, db) = None
      THEN credentials_exception
    ELSE Result(200, "", db, {}, None, None, get_user_by_email(token.payload.sub, db))

----------------------------------------------------------------------------
(* repository/users.py: removal of a row by the user store *)

delete_user(email, db) == [e \in DOMAIN db \ {email} |-> db[e]]

----------------------------------------------------------------------------
(* The state machine.  users is the table, now the clock in seconds;      *)
(* rotated records the refresh tokens that have been exchanged             *)
(* successfully.                                                           *)

Response(op, r) == [op |-> op, status |-> r.status, detail |-> r.detail]

Init ==
    /\ users = [e \in {} |-> None]
    /\ now = 0
    /\ issued = {}
    /\ resp = [op |-> "start", status |-> 0, detail |-> ""]
    /\ rotated = {}
    /\ inflight = [r \in Reqs |-> None]
    /\ outcome = [r \in Reqs |-> None]
    /\ contacts = [id \in {} |-> None]
    /\ lastId = 0

\* A handler ran to its response r.  resp keeps the response of the last
\* request that changed the table or handed out a token.
Handle(op, r) ==
    /\ CanIssue(r.sent)
    /\ users' = r.db
    /\ issued' = issued \cup r.sent
    /\ resp' = IF r.db # users \/ ~(r.sent \subseteq issued)
                THEN Response(op, r) ELSE resp

Tick ==
    /\ \E t \in Instants : t > now /\ now' = t
    /\ UNCHANGED <<users, issued, resp, rotated, inflight, outcome, contacts, lastId>>

Signup ==
    /\ \E body \in SignupForms :
          Handle("signup", register_user(body.username, body.user_email,
                                         body.password, users, now))
    /\ UNCHANGED <<now, rotated, inflight, outcome, contacts, lastId>>

Login ==
    /\ \E username \in Emails, password \in Passwords :
          Handle("login", login(username, password, users, now))
    /\ UNCHANGED <<now, rotated, inflight, outcome, contacts, lastId>>

Refresh ==
    /\ \E token \in Presentable :
          LET r == get_refresh_token(token, users, now)
          IN  /\ Handle("refresh", r)
              /\ rotated' = IF r.status = 200 THEN rotated \cup {token} ELSE rotated
    /\ UNCHANGED <<now, inflight, outcome, contacts, lastId>>

ConfirmedEmail ==
    /\ \E token \in Presentable :
          Handle("confirmed_email", confirmed_email(token, users, now))
    /\ UNCHANGED <<now, rotated, inflight, outcome, contacts, lastId>>

ForgotPassword ==
    /\ \E user_email \in Emails :
          Handle("forgot_password", forgot_password(user_email, users, now))
    /\ UNCHANGED <<now, rotated, inflight, outcome, contacts, lastId>>

ResetPassword ==
    /\ \E token \in Presentable, new_password \in Passwords :
          Handle("reset_password", reset_password_post(token, new_password, users, now))
    /\ UNCHANGED <<now, rotated, inflight, outcome, contacts, lastId>>

GetCurrentUser ==
    /\ \E token \in Presentable :
          Handle("get_current_user", get_current_user(token, users, now))
    /\ UNCHANGED <<now, rotated, inflight, outcome, contacts, lastId>>

DeleteUser ==
    /\ \E email \in DOMAIN users :
          /\ users' = delete_user(email, users)
          /\ resp' = [op |-> "delete_user", status |-> 0, detail |-> ""]
    /\ UNCHANGED <<now, issued, rotated, inflight, outcome, contacts, lastId>>

Next ==
    \/ Tick
    \/ Signup
    \/ Login
    \/ Refresh
    \/ ConfirmedEmail
    \/ ForgotPassword
    \/ ResetPassword
    \/ GetCurrentUser
    \/ DeleteUser

Spec == Init /\ [][Next]_vars

----------------------------------------------------------------------------
(* Two refresh requests in flight at once, each with a database session   *)
(* of its own (get_db opens one per request): a request reads the user    *)
(* row, and later compares the row it has read with the presented token    *)
(* and stores the outcome.  Workers that share the database interleave     *)
(* between the two steps.                                                   *)

Idle == \A r \in Reqs : inflight[r] = None

\* Both requests arrive with the refresh token that is stored for its user.
Arrive ==
    /\ Idle
    /\ \E token \in Presentable :
          /\ IsRefresh(token)
          /\ token.payload.sub \in DOMAIN users
          /\ users[token.payload.sub].refresh_token = token
          /\ inflight' = [r \in Reqs |-> [pc |-> "read", token |-> token, user |-> None]]
    /\ outcome' = [r \in Reqs |-> None]
    /\ UNCHANGED <<users, now, issued, resp, rotated, contacts, lastId>>

\* routes/auth.py lines 87-89: decode the token and read the user row.
ReadUser(r) ==
    /\ inflight[r] # None
    /\ inflight[r].pc = "read"
    /\ LET token == inflight[r].token
           decoded == decode_refresh_token(token, now)
       IN  IF ~decoded.ok
             THEN /\ outcome' = [outcome EXCEPT ![r] =
                                    [status |-> decoded.status, detail |-> decoded.detail]]
                  /\ inflight' = [inflight EXCEPT ![r] = None]
             ELSE /\ inflight' = [inflight EXCEPT ![r] =
                                    [pc |-> "compare", token |-> token,
                                     user |-> get_user_by_email(decoded.email, users)]]
                  /\ UNCHANGED outcome
    /\ UNCHANGED <<users, now, issued, resp, rotated, contacts, lastId>>

\* routes/auth.py lines 91-101: compare with the row read, store, answer.
CompareAndStore(r) ==
    /\ inflight[r] # None
    /\ inflight[r].pc = "compare"
    /\ LET token == inflight[r].token
           res == rotate_token(token, token.payload.sub, inflight[r].user, users, now)
       IN  /\ Handle("refresh", res)
           /\ rotated' = IF res.status = 200 THEN rotated \cup {token} ELSE rotated
           /\ outcome' = [outcome EXCEPT ![r] =
                             [status |-> res.status, detail |-> res.detail]]
    /\ inflight' = [inflight EXCEPT ![r] = None]
    /\ UNCHANGED <<now, contacts, lastId>>

NextConc ==
    \/ Tick
    \/ Signup
    \/ ConfirmedEmail
    \/ Login
    \/ Arrive
    \/ \E r \in Reqs : ReadUser(r)
    \/ \E r \in Reqs : CompareAndStore(r)

SpecConc == Init /\ [][NextConc]_vars

----------------------------------------------------------------------------
(* Two signup requests in flight at once: a request looks for a user with *)
(* its email (routes/auth.py lines 33-38) and later inserts the row and    *)
(* mails the confirmation token (lines 39-43); the other request runs in   *)
(* between.                                                                 *)

SignupArrive ==
    /\ Idle
    /\ \E first \in SignupForms, second \in SignupForms :
          inflight' = [r \in Reqs |->
                          [pc |-> "check", body |-> IF r = 1 THEN first ELSE second]]
    /\ outcome' = [r \in Reqs |-> None]
    /\ UNCHANGED <<users, now, issued, resp, rotated, contacts, lastId>>

\* routes/auth.py lines 33-38
SignupCheck(r) ==
    /\ inflight[r] # None
    /\ inflight[r].pc = "check"
    /\ IF get_user_by_email(inflight[r].body.user_email, users) # None
         THEN /\ outcome' = [outcome EXCEPT ![r] =
                                [status |-> 409, detail |-> "User already exists"]]
              /\ inflight' = [inflight EXCEPT ![r] = None]
         ELSE /\ inflight' = [inflight EXCEPT ![r].pc = "create"]
              /\ UNCHANGED outcome
    /\ UNCHANGED <<users, now, issued, resp, rotated, contacts, lastId>>

\* routes/auth.py lines 39-43
SignupCreate(r) ==
    /\ inflight[r] # None
    /\ inflight[r].pc = "create"
    /\ LET body == inflight[r].body
           res == register_user_create(body.username, body.user_email, body.password,
                                       users, now)
       IN  /\ Handle("signup", res)
           /\ outcome' = [outcome EXCEPT ![r] =
                             [status |-> res.status, detail |-> res.detail]]
    /\ inflight' = [inflight EXCEPT ![r] = None]
    /\ UNCHANGED <<now, rotated, contacts, lastId>>

NextSignup ==
    \/ Tick
    \/ ConfirmedEmail
    \/ DeleteUser
    \/ SignupArrive
    \/ \E r \in Reqs : SignupCheck(r)
    \/ \E r \in Reqs : SignupCreate(r)

SpecSignup == Init /\ [][NextSignup]_vars

----------------------------------------------------------------------------
(* tests/test_route_auth.py, test_refresh_token: the test creates a       *)
(* refresh token for the email of an existing user, adds through the      *)
(* session a user record of another email that holds this token, and      *)
(* presents the token to GET /auth/refresh_token.                          *)

InsertUser ==
    /\ \E user_email \in DOMAIN users, new_email \in Emails \ DOMAIN users,
          password \in Passwords :
          LET refresh_token == create_refresh_token([sub |-> user_email], now)
          IN  /\ CanIssue({refresh_token})
              /\ issued' = issued \cup {refresh_token}
              /\ users' = [e \in DOMAIN users \cup {new_email} |->
                              IF e = new_email
                                THEN [username |-> "new_username",
                                      user_email |-> new_email,
                                      password |-> [scheme |-> "none", plain |-> password],
                                      confirmed |-> FALSE,
                                      refresh_token |-> refresh_token]
                                ELSE users[e]]
    /\ resp' = [op |-> "insert_user", status |-> 0, detail |-> ""]
    /\ UNCHANGED <<now, rotated, inflight, outcome, contacts, lastId>>

NextTest ==
    \/ Tick
    \/ Signup
    \/ ConfirmedEmail
    \/ Login
    \/ InsertUser
    \/ Refresh

SpecTest == Init /\ [][NextTest]_vars

----------------------------------------------------------------------------
(* The contacts table: database/models.py Contact, repository/contacts.py *)
(* and routes/contacts.py.  A text value is a record holding the sequence *)
(* of its characters, a date a record of year, month and day; either can  *)
(* stand next to None in a nullable column.  contacts maps the id of a    *)
(* row to the row, lastId is the last value of the id sequence.            *)

MaxContactId == 3

UserIds == {1, 2}

CurrentUsers == {[id |-> u] : u \in UserIds}

Text(chars) == [text |-> chars]

date(year, month, day) == [year |-> year, month |-> month, day |-> day]

\* The ContactModel bodies sent.
ContactModels ==
    {[first_name |-> Text(<<"A", "l">>), last_name |-> Text(<<"A", "l", "i">>),
      email |-> Text(<<"a", "l", "@", "x">>), phone_number |-> Text(<<"1">>),
      birthday |-> date(1990, 1, 2), position |-> None],
     [first_name |-> Text(<<"B", "o">>), last_name |-> Text(<<"L", "i">>),
      email |-> None, phone_number |-> Text(<<"2">>),
      birthday |-> None, position |-> Text(<<"d", "e", "v">>)],
     [first_name |-> Text(<<"A", "l">>), last_name |-> Text(<<"B", "o">>),
      email |-> Text(<<"a", "l", "@", "x">>), phone_number |-> Text(<<"3">>),
      birthday |-> date(2000, 2, 29), position |-> None],
     [first_name |-> Text(<<"L", "i">>), last_name |-> Text(<<"A", "l">>),
      email |-> Text(<<"l", "i", "@", "x">>), phone_number |-> Text(<<"1">>),
      birthday |-> date(1990, 12, 30), position |-> None]}

\* The ContactUpdate bodies sent.
ContactUpdates ==
    {[email |-> None, phone_number |-> None, position |-> Text(<<"q", "a">>)],
     [email |-> Text(<<"l", "i", "@", "x">>), phone_number |-> Text(<<"2">>),
      position |-> None]}

\* The values of the query parameter: absent, empty, and search words.
Queries ==
    {None, Text(<<>>), Text(<<"a", "l">>), Text(<<"L", "I">>), Text(<<"z">>)}

Skips == {0, 1}
Limits == {1, 10}

\* The orders in which the database may hand out the rows of a query
\* without ORDER BY.
Orders ==
    {o \in [1..MaxContactId -> 1..MaxContactId] :
        \A i \in 1..MaxContactId, j \in 1..MaxContactId : o[i] = o[j] => i = j}

\* str.lower and SQL lower()
lower_char(c) ==
    CASE c = "A" -> "a" [] c = "B" -> "b" [] c = "L" -> "l" [] c = "I" -> "i"
      [] OTHER -> c

lower(value) == [i \in 1..Len(value.text) |-> lower_char(value.text[i])]

\* SQL LIKE: % stands for any run of characters, _ for one character.
RECURSIVE like(_, _)
like(text, pattern) ==
    IF pattern = <<>> THEN text = <<>>
    ELSE IF Head(pattern) = "%"
      THEN like(text, Tail(pattern)) \/ (text # <<>> /\ like(Tail(text), pattern))
    ELSE /\ text # <<>>
         /\ Head(pattern) = "_" \/ Head(pattern) = Head(text)
         /\ like(Tail(text), Tail(pattern))

\* func.lower(column).like(f"%{q.lower()}%"); NULL for a NULL column, which
\* a filter takes as false.
lower_like(column, q) ==
    column # None /\ like(lower(column), <<"%">> \o lower(q) \o <<"%">>)

\* datetime.date
is_leap(year) == (year % 4 = 0 /\ year % 100 # 0) \/ year % 400 = 0

days_before_month(year, month) ==
    <<0, 31, 59, 90, 120, 151, 181, 212, 243, 273, 304, 334>>[month]
        + (IF month > 2 /\ is_leap(year) THEN 1 ELSE 0)

toordinal(d) ==
    LET y == d.year - 1
    IN  y * 365 + (y \div 4) - (y \div 100) + (y \div 400)
          + days_before_month(d.year, d.month) + d.day

\* date.replace(year=...) raises ValueError for a day the year does not have.
replace_year_valid(d, year) == ~(d.month = 2 /\ d.day = 29 /\ ~is_leap(year))

replace_year(d, year) == [d EXCEPT !.year = year]

Days == {7, 366}

\* The values of date.today().
Todays == {date(2023, 12, 28), date(2024, 2, 27)}

(* repository/contacts.py.  db is the contacts table, order the order in  *)
(* which the database hands out rows.  A function answers with its return *)
(* value, or with the error it ends in, and with the table it leaves.      *)

Returns(value, db) == [value |-> value, error |-> None, db |-> db]

Raises(status, detail, db) ==
    [value |-> None, error |-> [status |-> status, detail |-> detail], db |-> db]

\* db.query(Contact).filter(...).all(): the rows whose ids are in passing
\* (those the filter lets pass), in database order.
query_all(db, order, passing) ==
    LET ids == SelectSeq(order, LAMBDA id : id \in passing)
    IN  [k \in 1..Len(ids) |-> db[ids[k]]]

\* filter_by(user_id=user.id)
of_user(db, user) == {i \in DOMAIN db : db[i].user_id = user.id}

\* .offset(skip).limit(limit)
offset_limit(rows, skip, limit) ==
    SubSeq(rows, skip + 1, IF Len(rows) < skip + limit THEN Len(rows) ELSE skip + limit)

\* The unique constraints on contacts.email and contacts.phone_number: the
\* table db is acceptable.
unique_ok(db) ==
    \A i \in DOMAIN db, j \in DOMAIN db :
        i # j => /\ db[i].phone_number # db[j].phone_number
                 /\ db[i].email = None \/ db[i].email # db[j].email

\* A Python list, which a function may return next to None.
List(items) == [items |-> items]

get_contacts(skip, limit, user, db, order) ==
    List(offset_limit(query_all(db, order, of_user(db, user)), skip, limit))

get_contact(contact_id, user, db) ==
    IF contact_id \in DOMAIN db /\ db[contact_id].user_id = user.id
      THEN db[contact_id]
      ELSE None

create_contact(body, user, db, id) ==
    LET contact == [id |-> id, first_name |-> body.first_name,
                    last_name |-> body.last_name, email |-> body.email,
                    phone_number |-> body.phone_number, birthday |-> body.birthday,
                    position |-> body.position, user_id |-> user.id]
        new_db == [i \in DOMAIN db \cup {id} |-> IF i = id THEN contact ELSE db[i]]
        \* filter_by(email=None) asks for the rows whose email IS NULL
        duplicate_fields ==
            (IF \E i \in DOMAIN db : db[i].email = contact.email
               THEN <<"email">> ELSE <<>>)
            \o (IF \E i \in DOMAIN db : db[i].phone_number = contact.phone_number
                  THEN <<"phone_number">> ELSE <<>>)
    IN
    IF unique_ok(new_db)
      THEN Returns(contact, new_db)
    ELSE IF duplicate_fields # <<>>
      THEN Raises(409, [message |-> "Duplicate fields", fields |-> duplicate_fields], db)
    ELSE Raises(409, [message |-> "Data already exist", fields |-> <<>>], db)

\* delete_contact without the filter on the owner.
delete_contact_any_owner(contact_id, user, db) ==
    IF contact_id \in DOMAIN db
      THEN Returns([deleted |-> <<db[contact_id].first_name, db[contact_id].last_name>>],
                   [i \in DOMAIN db \ {contact_id} |-> db[i]])
      ELSE Returns(None, db)

delete_contact(contact_id, user, db) ==
    LET contact == get_contact(contact_id, user, db)
    IN
    IF contact # None
      THEN Returns([deleted |-> <<contact.first_name, contact.last_name>>],
                   [i \in DOMAIN db \ {contact_id} |-> db[i]])
      ELSE Returns(None, db)

put_update_contact(contact_id, body, user, db) ==
    LET contact == get_contact(contact_id, user, db)
        updated == [contact EXCEPT !.first_name = body.first_name,
                                   !.last_name = body.last_name,
                                   !.email = body.email,
                                   !.phone_number = body.phone_number,
                                   !.birthday = body.birthday,
                                   !.position = body.position]
        new_db == [db EXCEPT ![contact_id] = updated]
    IN
    IF contact = None THEN Returns(None, db)
    ELSE IF ~unique_ok(new_db)
      THEN \* IntegrityError out of db.commit()
           Raises(500, "Internal Server Error", db)
    ELSE Returns(updated, new_db)

\* body.field or contact.field
or_else(value, default) ==
    IF value = None \/ value = Text(<<>>) THEN default ELSE value

patch_update_contact(contact_id, body, user, db) ==
    LET contact == get_contact(contact_id, user, db)
        updated == [contact EXCEPT !.email = or_else(body.email, contact.email),
                                   !.phone_number = or_else(body.phone_number,
                                                            contact.phone_number),
                                   !.position = or_else(body.position, contact.position)]
        new_db == [db EXCEPT ![contact_id] = updated]
    IN
    IF contact = None THEN Returns(None, db)
    ELSE IF ~unique_ok(new_db)
      THEN Raises(500, "Internal Server Error", db)
    ELSE Returns(updated, new_db)

search_contacts(q, skip, limit, user, db, order) ==
    LET required_contacts ==
            offset_limit(
                query_all(db, order,
                          {i \in of_user(db, user) :
                              /\ lower_like(db[i].first_name, q)
                              /\ lower_like(db[i].last_name, q)
                              /\ lower_like(db[i].email, q)}),
                skip, limit)
    IN  IF required_contacts # <<>> THEN List(required_contacts) ELSE None

\* The body of the loop of get_upcoming_birthdays: what one contact adds to
\* the list.
upcoming_of(contact, today, end_date) ==
    LET this_year == toordinal(replace_year(contact.birthday, today.year))
        next_year == toordinal(replace_year(contact.birthday, today.year + 1))
    IN  (IF end_date >= this_year /\ this_year > toordinal(today)
           THEN <<contact>> ELSE <<>>)
        \o (IF end_date >= next_year /\ next_year > toordinal(today)
              THEN <<contact>> ELSE <<>>)

RECURSIVE upcoming_loop(_, _, _)
upcoming_loop(all_contacts, today, end_date) ==
    IF all_contacts = <<>> THEN <<>>
    ELSE upcoming_of(Head(all_contacts), today, end_date)
            \o upcoming_loop(Tail(all_contacts), today, end_date)

get_upcoming_birthdays(days, user, db, order, today) ==
    LET end_date == toordinal(today) + days
        all_contacts == query_all(db, order, of_user(db, user))
        upcoming_birthdays == upcoming_loop(all_contacts, today, end_date)
    IN
    IF \E k \in 1..Len(all_contacts) :
          \/ all_contacts[k].birthday = None
          \/ ~replace_year_valid(all_contacts[k].birthday, today.year)
          \/ ~replace_year_valid(all_contacts[k].birthday, today.year + 1)
      THEN \* contact.birthday.replace on None: AttributeError; on a 29th of
           \* February for a year without one: ValueError
           Raises(500, "Internal Server Error", db)
    ELSE IF upcoming_birthdays # <<>>
      THEN Returns(List(upcoming_birthdays), db)
    ELSE Returns(None, db)

(* routes/contacts.py *)

\* GET /contacts/
read_contacts(query, skip, limit, current_user, db, order) ==
    LET contact_list ==
            IF query # None /\ query # Text(<<>>)
              THEN search_contacts(query, skip, limit, current_user, db, order)
              ELSE get_contacts(skip, limit, current_user, db, order)
    IN
    IF contact_list = None
      THEN \* len(None): TypeError
           Raises(500, "Internal Server Error", db)
    ELSE IF Len(contact_list.items) # 0
      THEN Returns(contact_list, db)
    ELSE Raises(404, "No contacts were found", db)

(* The state machine of the contacts table: the requests of authenticated *)
(* users.                                                                  *)

CreateContact ==
    /\ lastId < MaxContactId
    /\ \E body \in ContactModels, user \in CurrentUsers :
          LET r == create_contact(body, user, contacts, lastId + 1)
          IN  /\ contacts' = r.db
              /\ lastId' = IF r.error = None THEN lastId + 1 ELSE lastId
    /\ UNCHANGED authVars

DeleteContact ==
    /\ \E contact_id \in 1..MaxContactId, user \in CurrentUsers :
          contacts' = delete_contact(contact_id, user, contacts).db
    /\ UNCHANGED <<authVars, lastId>>

PutUpdateContact ==
    /\ \E contact_id \in 1..MaxContactId, body \in ContactModels, user \in CurrentUsers :
          contacts' = put_update_contact(contact_id, body, user, contacts).db
    /\ UNCHANGED <<authVars, lastId>>

PatchUpdateContact ==
    /\ \E contact_id \in 1..MaxContactId, body \in ContactUpdates, user \in CurrentUsers :
          contacts' = patch_update_contact(contact_id, body, user, contacts).db
    /\ UNCHANGED <<authVars, lastId>>

ReadContacts ==
    /\ \E query \in Queries, skip \in Skips, limit \in Limits,
          user \in CurrentUsers, order \in Orders :
          contacts' = read_contacts(query, skip, limit, user, contacts, order).db
    /\ UNCHANGED <<authVars, lastId>>

ReadContact ==
    /\ \E contact_id \in 1..MaxContactId, user \in CurrentUsers :
          get_contact(contact_id, user, contacts) \in {None} \cup {contacts[i] : i \in DOMAIN contacts}
    /\ UNCHANGED vars

UpcomingBirthdays ==
    /\ \E days \in Days, user \in CurrentUsers, order \in Orders, today \in Todays :
          contacts' = get_upcoming_birthdays(days, user, contacts, order, today).db
    /\ UNCHANGED <<authVars, lastId>>

NextContacts ==
    \/ CreateContact
    \/ DeleteContact
    \/ PutUpdateContact
    \/ PatchUpdateContact
    \/ ReadContacts
    \/ ReadContact
    \/ UpcomingBirthdays

SpecContacts == Init /\ [][NextContacts]_vars

----------------------------------------------------------------------------
(* Properties *)

Failed(r) == r.status \notin {200, 201}

Subject(token) == token.payload.sub

\* A token that passes decode_refresh_token and names a user of the table.
LiveRefresh(token) ==
    /\ jwt_decodes(token, now)
    /\ IsRefresh(token)
    /\ Subject(token) \in DOMAIN users

\* C1: once a refresh presenting r0 has succeeded, every later refresh
\* presenting the same r0 (still unexpired, its user still present) takes the
\* mismatch branch and fails with 401 "Invalid refresh token".
C1_OneShot ==
    \A r0 \in rotated :
        LiveRefresh(r0) =>
            LET r == get_refresh_token(r0, users, now)
            IN  r.status = 401 /\ r.detail = "Invalid refresh token"

\* C2: a refresh that replays a rotated token r0 fails and leaves the stored
\* refresh token of its user absent, and after it no token the user holds
\* (the replacement refresh_1 included) is accepted by refresh.
C2_ReplayRevokes ==
    \A r0 \in rotated :
        LiveRefresh(r0) =>
            LET replay == get_refresh_token(r0, users, now)
            IN  /\ Failed(replay)
                /\ replay.db[Subject(r0)].refresh_token = None
                /\ \A r1 \in Presentable :
                      Subject(r1) = Subject(r0) =>
                          Failed(get_refresh_token(r1, replay.db, now))

\* C3: a validly signed, unexpired, refresh-scoped token of an existing user
\* that differs from the stored refresh token (none stored included) fails
\* with 401 "Invalid refresh token", sets the stored token to absent and
\* returns no tokens.
C3_Mismatch ==
    \A token \in Presentable :
        (LiveRefresh(token) /\ users[Subject(token)].refresh_token # token) =>
            LET r == get_refresh_token(token, users, now)
            IN  /\ r.status = 401
                /\ r.detail = "Invalid refresh token"
                /\ r.db = update_token(Subject(token), None, users)
                /\ r.db[Subject(token)].refresh_token = None
                /\ r.access = None /\ r.refresh = None /\ r.sent = {}

\* A mismatch has revoked a stored refresh token.
C3_Witness ==
    /\ resp = [op |-> "refresh", status |-> 401, detail |-> "Invalid refresh token"]
    /\ \E token \in Presentable :
          /\ LiveRefresh(token)
          /\ users[Subject(token)].refresh_token = None

\* C4: in the match branch (the presented token decodes as a refresh token
\* and equals the stored refresh token of its user) the call answers 200 with
\* an access token and a refresh token issued now for the same email, and the
\* stored refresh token is afterwards exactly the refresh token returned.
C4_Match ==
    \A token \in Presentable :
        (LiveRefresh(token) /\ users[Subject(token)].refresh_token = token) =>
            LET r == get_refresh_token(token, users, now)
                email == Subject(token)
            IN  /\ r.status = 200
                /\ IsAccess(r.access) /\ Subject(r.access) = email
                /\ r.access.sig = "valid" /\ r.access.payload.iat = now
                /\ IsRefresh(r.refresh) /\ Subject(r.refresh) = email
                /\ r.refresh.sig = "valid" /\ r.refresh.payload.iat = now
                /\ r.db[email].refresh_token = r.refresh
                /\ r.db = update_token(email, r.refresh, users)
                /\ r.sent = {r.refresh}

\* A rotation has replaced the stored token by a token of a later second.
C4_Witness ==
    /\ resp.op = "refresh" /\ resp.status = 200
    /\ \E token \in rotated :
          /\ Subject(token) \in DOMAIN users
          /\ users[Subject(token)].refresh_token \in issued \ rotated
          /\ users[Subject(token)].refresh_token.payload.iat = now
          /\ token.payload.iat < now

\* C5: of two concurrent refresh requests presenting the same stored refresh
\* token at most one succeeds with a token pair.
C5_AtMostOneRotation ==
    ~(\A r \in Reqs : outcome[r] # None /\ outcome[r].status = 200)

\* C6: an access token presented to refresh is rejected with 401 and yields
\* no tokens; a refresh token presented to get_current_user is rejected with
\* 401 and yields no user.
C6_ScopeSeparation ==
    \A token \in Presentable :
        /\ IsAccess(token) =>
              LET r == get_refresh_token(token, users, now)
              IN  /\ r.status = 401
                  /\ r.access = None /\ r.refresh = None /\ r.sent = {}
        /\ IsRefresh(token) =>
              LET r == get_current_user(token, users, now)
              IN  r.status = 401 /\ r.user = None

\* An unexpired access token and the unexpired stored refresh token of an
\* existing user are each refused by the other operation.
C6_Witness ==
    \E a \in Presentable, r \in Presentable :
        /\ IsAccess(a) /\ jwt_decodes(a, now) /\ Subject(a) \in DOMAIN users
        /\ LiveRefresh(r) /\ users[Subject(r)].refresh_token = r
        /\ get_refresh_token(a, users, now).detail = "Invalid scope for token"
        /\ get_current_user(r, users, now).status = 401

\* C7: a token that decodes and whose scope is not the required one, an email
\* token without a scope claim included, is rejected with 401 by
\* get_current_user and by refresh.
C7_WrongScopeUnauthorized ==
    \A token \in Presentable :
        jwt_decodes(token, now) =>
            /\ ~IsAccess(token) => get_current_user(token, users, now).status = 401
            /\ ~IsRefresh(token) => get_refresh_token(token, users, now).status = 401

Quiet(r) == Failed(r) => (r.db = users /\ r.sent = {})

\* C8: a refresh refused at decode or for its scope leaves the table as it
\* is, and the stored-token mismatch is the only failing path of any auth
\* operation that changes the table.
C8_OnlyMismatchRevokes ==
    /\ \A token \in Presentable :
          LET r == get_refresh_token(token, users, now)
          IN  /\ ~decode_refresh_token(token, now).ok => (Failed(r) /\ r.db = users)
              /\ (Failed(r) /\ r.db # users) => r.detail = "Invalid refresh token"
              /\ Failed(r) => r.sent = {}
    /\ \A body \in SignupForms :
          Quiet(register_user(body.username, body.user_email, body.password, users, now))
    /\ \A email \in Emails :
          /\ Quiet(forgot_password(email, users, now))
          /\ \A password \in Passwords : Quiet(login(email, password, users, now))
    /\ \A token \in Presentable :
          /\ Quiet(confirmed_email(token, users, now))
          /\ Quiet(get_current_user(token, users, now))
          /\ \A password \in Passwords :
                Quiet(reset_password_post(token, password, users, now))

\* The stored refresh token of a user has expired: presenting it is refused
\* at decode and the table stays as it is.
C8_Witness ==
    \E token \in Presentable :
        /\ IsRefresh(token) /\ token.sig = "valid" /\ ~jwt_decodes(token, now)
        /\ Subject(token) \in DOMAIN users
        /\ users[Subject(token)].refresh_token = token
        /\ get_refresh_token(token, users, now).status = 401
        /\ get_refresh_token(token, users, now).db = users

\* C9: a refresh presenting a valid refresh-scoped token whose sub names no
\* user record fails with 401 and changes no state.
C9_UnknownUserUnauthorized ==
    \A token \in Presentable :
        (jwt_decodes(token, now) /\ IsRefresh(token)
            /\ Subject(token) \notin DOMAIN users) =>
            LET r == get_refresh_token(token, users, now)
            IN  r.status = 401 /\ r.db = users /\ r.sent = {}

\* C10: get_current_user answers 200 with the user's record exactly when the
\* token decodes, has scope access_token and its sub is the email of an
\* existing user; in every other case it rejects with 401; it changes no
\* state.
C10_SessionValidator ==
    \A token \in Presentable :
        LET r == get_current_user(token, users, now)
            authentic == /\ jwt_decodes(token, now)
                         /\ IsAccess(token)
                         /\ Subject(token) \in DOMAIN users
        IN  /\ authentic => (r.status = 200 /\ r.user = users[Subject(token)])
            /\ ~authentic => (r.status = 401 /\ r.user = None)
            /\ r.db = users /\ r.sent = {}

\* C11: login fails with 401 "Incorrect username or password" when the email
\* is unknown or the password does not verify, whether or not the account is
\* confirmed; otherwise with 401 "Please confirm your account" when the
\* account is not confirmed; a failed login issues no tokens and leaves the
\* table, the stored refresh tokens included, as it is.
C11_LoginFailures ==
    \A username \in Emails, password \in Passwords :
        LET r == login(username, password, users, now)
            user == get_user_by_email(username, users)
            bad == user = None \/ ~verify_password(password, user.password)
        IN  /\ bad => (r.status = 401 /\ r.detail = "Incorrect username or password")
            /\ (~bad /\ ~user.confirmed) =>
                  (r.status = 401 /\ r.detail = "Please confirm your account")
            /\ Failed(r) => /\ r.access = None /\ r.refresh = None /\ r.sent = {}
                            /\ r.db = users

\* An unconfirmed user is refused for the password first and for the missing
\* confirmation second, next to a confirmed user whose stored refresh token
\* a login with the wrong password leaves in place.
C11_Witness ==
    \E e \in DOMAIN users, f \in DOMAIN users, wrong \in Passwords :
        /\ ~users[e].confirmed
        /\ login(e, wrong, users, now).detail = "Incorrect username or password"
        /\ login(e, users[e].password.plain, users, now).detail = "Please confirm your account"
        /\ users[f].confirmed /\ users[f].refresh_token # None
        /\ \E p \in Passwords : Failed(login(f, p, users, now))

\* C12: a login with the correct password of a confirmed user answers 201
\* with an access token, a refresh token and token_type "bearer"; the stored
\* refresh token of the user is afterwards the refresh token returned,
\* whatever was stored before, and no other field and no other user changes.
C12_LoginSuccess ==
    \A username \in Emails, password \in Passwords :
        LET r == login(username, password, users, now)
            user == get_user_by_email(username, users)
        IN  (user # None /\ verify_password(password, user.password) /\ user.confirmed) =>
                /\ r.status = 201 /\ r.detail = "bearer"
                /\ IsAccess(r.access) /\ Subject(r.access) = username
                /\ r.access.sig = "valid"
                /\ IsRefresh(r.refresh) /\ Subject(r.refresh) = username
                /\ r.refresh.sig = "valid"
                /\ r.db[username].refresh_token = r.refresh
                /\ r.db = [users EXCEPT ![username].refresh_token = r.refresh]

\* A login has overwritten the refresh token stored by an earlier login.
C12_Witness ==
    /\ resp.op = "login" /\ resp.status = 201
    /\ \E e \in DOMAIN users, old \in issued :
          /\ IsRefresh(old) /\ Subject(old) = e
          /\ users[e].refresh_token # None
          /\ users[e].refresh_token # old
          /\ users[e].refresh_token.payload.iat = now
          /\ old.payload.iat < now

\* The claims of the token send_reset_password_email mails for its subject
\* and second.
IsResetToken(token) ==
    token.payload
        = create_email_token([sub |-> Subject(token)], RESET_TTL, token.payload.iat).payload

\* The claims of the token send_email mails after signup for its subject and
\* second.
IsConfirmationToken(token) ==
    token.payload
        = create_email_token([sub |-> Subject(token)], 0, token.payload.iat).payload

\* C13: once a consumption of a password-reset token has succeeded and set
\* the password hash, a later consumption of the same token fails and leaves
\* the password hash as it is.
C13_ResetSingleUse ==
    \A token \in Presentable, first \in Passwords, second \in Passwords :
        LET r1 == reset_password_post(token, first, users, now)
            r2 == reset_password_post(token, second, r1.db, now)
        IN  (IsResetToken(token) /\ r1.status = 201) =>
                (Failed(r2) /\ r2.db = r1.db)

\* C14: reset_password_post changes a password only for a token issued by
\* forgot_password, and confirmed_email confirms only for a token issued by
\* signup; the token of the other workflow and the access and refresh tokens
\* of the same email are rejected by both.
C14_PurposeBound ==
    \A token \in Presentable :
        /\ \A new_password \in Passwords :
              reset_password_post(token, new_password, users, now).status = 201
                  => IsResetToken(token)
        /\ confirmed_email(token, users, now).status = 200
              => IsConfirmationToken(token)

\* C15: a successful password reset changes only the password hash of the
\* user the token names: stored refresh token and confirmed flag stay, every
\* access token authenticates after it exactly as before, and the stored
\* refresh token, while unexpired, still rotates.
C15_ResetKeepsSessions ==
    \A token \in Presentable, new_password \in Passwords :
        LET r == reset_password_post(token, new_password, users, now)
            email == Subject(token)
        IN  r.status = 201 =>
                /\ r.db = [users EXCEPT ![email].password = get_password_hash(new_password)]
                /\ r.db[email].refresh_token = users[email].refresh_token
                /\ r.db[email].confirmed = users[email].confirmed
                /\ r.sent = {}
                /\ \A a \in Presentable :
                      LET before == get_current_user(a, users, now)
                          after == get_current_user(a, r.db, now)
                      IN  /\ after.status = before.status
                          /\ (Subject(a) = email /\ IsAccess(a) /\ jwt_decodes(a, now))
                                => after.status = 200
                /\ \A s \in Presentable :
                      (LiveRefresh(s) /\ users[email].refresh_token = s) =>
                          get_refresh_token(s, r.db, now).status = 200

\* A password has been reset while its user holds an access token that
\* authenticates and a stored refresh token that rotates.
C15_Witness ==
    /\ resp.op = "reset_password" /\ resp.status = 201
    /\ \E s \in Presentable :
          /\ LiveRefresh(s) /\ users[Subject(s)].refresh_token = s
          /\ get_refresh_token(s, users, now).status = 200
          /\ get_current_user(AccessOf(s), users, now).status = 200

\* C16: consuming a valid confirmation token of an existing user answers 200
\* and leaves confirmed = TRUE; consumed again right after, with the same or
\* another valid token of that user, it answers 200 again and changes
\* nothing; for a user already confirmed it changes nothing.
C16_ConfirmIdempotent ==
    \A t1 \in Presentable :
        LET r1 == confirmed_email(t1, users, now)
            email == Subject(t1)
        IN  (jwt_decodes(t1, now) /\ email \in DOMAIN users) =>
                /\ r1.status = 200
                /\ r1.db[email].confirmed
                /\ users[email].confirmed => r1.db = users
                /\ \A t2 \in Presentable :
                      (jwt_decodes(t2, now) /\ Subject(t2) = email) =>
                          LET r2 == confirmed_email(t2, r1.db, now)
                          IN  /\ r2.status = 200
                              /\ r2.db = r1.db
                              /\ r2.db[email].confirmed

\* A confirmation has set the flag and the token that set it is consumed
\* again with success.
C16_Witness ==
    /\ resp = [op |-> "confirmed_email", status |-> 200,
               detail |-> "Your email is confirmed"]
    /\ \E token \in Presentable :
          /\ IsConfirmationToken(token) /\ jwt_decodes(token, now)
          /\ Subject(token) \in DOMAIN users
          /\ users[Subject(token)].confirmed
          /\ confirmed_email(token, users, now).detail = "Your email is already confirmed"

\* C17: a valid confirmation token whose email names no user fails with 400
\* "Verification error" and changes nothing; a successful confirmation sets
\* confirmed on the user named by sub and changes no other row.
C17_ConfirmTargetsSub ==
    \A token \in Presentable :
        LET r == confirmed_email(token, users, now)
            email == Subject(token)
        IN  /\ (jwt_decodes(token, now) /\ email \notin DOMAIN users) =>
                  /\ r.status = 400 /\ r.detail = "Verification error"
                  /\ r.db = users /\ r.sent = {}
            /\ r.status = 200 =>
                  /\ email \in DOMAIN users
                  /\ r.db = [users EXCEPT ![email].confirmed = TRUE]
                  /\ \A e \in DOMAIN users \ {email} : r.db[e] = users[e]

\* The user of a valid confirmation token is gone while another user waits
\* for confirmation, and a second token confirms exactly its own user.
C17_Witness ==
    \E gone \in Presentable, token \in Presentable :
        /\ IsConfirmationToken(gone) /\ jwt_decodes(gone, now)
        /\ Subject(gone) \notin DOMAIN users
        /\ confirmed_email(gone, users, now).status = 400
        /\ IsConfirmationToken(token) /\ jwt_decodes(token, now)
        /\ Subject(token) \in DOMAIN users
        /\ ~users[Subject(token)].confirmed
        /\ confirmed_email(token, users, now).status = 200

\* Every token among tokens is issued now and lives for ttl seconds.
LivesFor(tokens, ttl) ==
    \A token \in tokens :
        token.payload.iat = now /\ token.payload.exp = now + ttl

\* A consumption of token that no operation lets past the decode.
DecodeFails(token) ==
    /\ get_current_user(token, users, now).detail
          = "Could not validate credentials for this user"
    /\ get_refresh_token(token, users, now).detail = "Could not validate credentials"
    /\ confirmed_email(token, users, now).detail = "Invalid token for email verification"
    /\ \A new_password \in Passwords :
          LET r == reset_password_post(token, new_password, users, now)
          IN  r.detail = "Invalid token for email verification" /\ r.db = users

\* C18: tokens are issued with exp = issue instant + lifetime, the lifetime
\* being 20 minutes for an access token, 5 days for a refresh token, 5 days
\* for an email-confirmation token and 10 minutes for a password-reset
\* token, and a validly signed token consumed after issue instant + lifetime
\* fails at decode in every operation.
C18_Lifetimes ==
    /\ \A email \in Emails :
          /\ LivesFor(forgot_password(email, users, now).sent, 10 * 60)
          /\ \A password \in Passwords :
                LET r == login(email, password, users, now)
                IN  /\ LivesFor({r.access} \ {None}, 20 * 60)
                    /\ LivesFor({r.refresh} \ {None}, 5 * 24 * 3600)
    /\ \A body \in SignupForms :
          LivesFor(register_user(body.username, body.user_email, body.password,
                                 users, now).sent, 5 * 24 * 3600)
    /\ \A token \in Presentable :
          LET r == get_refresh_token(token, users, now)
              lifetime == IF IsAccess(token) THEN 20 * 60
                          ELSE IF IsResetToken(token) THEN 10 * 60
                          ELSE 5 * 24 * 3600
          IN  /\ LivesFor({r.access} \ {None}, 20 * 60)
              /\ LivesFor({r.refresh} \ {None}, 5 * 24 * 3600)
              /\ token.payload.exp = token.payload.iat + lifetime
              /\ (token.sig = "valid" /\ now > token.payload.iat + lifetime)
                    => DecodeFails(token)

\* A password-reset token of an existing user is presented more than 10
\* minutes after its issue and is refused at decode, while the confirmation
\* token of the same second is still accepted.
C18_Witness ==
    \E token \in Presentable, other \in Presentable :
        /\ IsResetToken(token) /\ token.sig = "valid"
        /\ Subject(token) \in DOMAIN users
        /\ now > token.payload.iat + 10 * 60
        /\ DecodeFails(token)
        /\ IsConfirmationToken(other) /\ other.payload.iat = token.payload.iat
        /\ confirmed_email(other, users, now).status = 200

\* C19: a token whose exp is at or before the current time, the instant
\* exp = now included, fails to decode in Auth.decode_refresh_token, in
\* Auth.get_email_from_token and in Auth.get_current_user, whether its
\* signature verifies or not.
C19_ExpiredAtBoundary ==
    \A token \in Presentable :
        token.payload.exp <= now =>
            /\ ~decode_refresh_token(token, now).ok
            /\ ~get_email_from_token(token, now).ok
            /\ Failed(get_current_user(token, users, now))

\* C20: a token refused for its signature, for its expiry, for its scope or
\* for differing from the stored refresh token is answered with 401 in
\* session validation, refresh, email confirmation and password reset.
C20_TokenFailuresAre401 ==
    \A token \in Presentable :
        LET session == get_current_user(token, users, now)
            refresh == get_refresh_token(token, users, now)
            confirm == confirmed_email(token, users, now)
        IN  /\ ~jwt_decodes(token, now) =>
                  /\ session.status = 401 /\ refresh.status = 401
                  /\ confirm.status = 401
                  /\ \A new_password \in Passwords :
                        reset_password_post(token, new_password, users, now).status = 401
            /\ (jwt_decodes(token, now) /\ ~IsAccess(token)) => session.status = 401
            /\ (jwt_decodes(token, now) /\ ~IsRefresh(token)) => refresh.status = 401
            /\ (LiveRefresh(token) /\ users[Subject(token)].refresh_token # token)
                  => refresh.status = 401

\* C21: signup with the email of an existing user fails with 409 "User
\* already exists" and changes nothing; signup with an unused email answers
\* 201 with the name and email of the new user and adds exactly one user
\* record, unconfirmed and without stored refresh token.
C21_Signup ==
    \A body \in SignupForms :
        LET r == register_user(body.username, body.user_email, body.password, users, now)
            email == body.user_email
        IN  /\ email \in DOMAIN users =>
                  /\ r.status = 409 /\ r.detail = "User already exists"
                  /\ r.db = users /\ r.sent = {}
            /\ email \notin DOMAIN users =>
                  /\ r.status = 201
                  /\ DOMAIN r.db = DOMAIN users \cup {email}
                  /\ \A e \in DOMAIN users : r.db[e] = users[e]
                  /\ r.db[email].username = body.username
                  /\ r.db[email].user_email = email
                  /\ ~r.db[email].confirmed
                  /\ r.db[email].refresh_token = None
                  /\ r.user = r.db[email]

Owned(user) == {i \in DOMAIN contacts : contacts[i].user_id = user.id}

\* The rows of a returned list.
Items(list) == {list.items[k] : k \in 1..Len(list.items)}

\* C23: get_contact, get_contacts, search_contacts, delete_contact,
\* put_update_contact and patch_update_contact called for user u return only
\* rows of u and change or delete only rows of u; for the id of a row of
\* another user they return None and leave the table as it is.
C23_ContactsScoped ==
    \A user \in CurrentUsers :
        /\ \A contact_id \in 1..MaxContactId :
              LET foreign == contact_id \in DOMAIN contacts \ Owned(user)
                  Scoped(r) ==
                      /\ r.value # None => contact_id \in Owned(user)
                      /\ \A i \in DOMAIN contacts \ Owned(user) :
                            i \in DOMAIN r.db /\ r.db[i] = contacts[i]
                      /\ foreign => (r.value = None /\ r.error = None /\ r.db = contacts)
              IN  /\ get_contact(contact_id, user, contacts) # None
                        => contact_id \in Owned(user)
                  /\ foreign => get_contact(contact_id, user, contacts) = None
                  /\ Scoped(delete_contact(contact_id, user, contacts))
                  /\ \A body \in ContactModels :
                        Scoped(put_update_contact(contact_id, body, user, contacts))
                  /\ \A body \in ContactUpdates :
                        Scoped(patch_update_contact(contact_id, body, user, contacts))
        /\ \A skip \in Skips, limit \in Limits, order \in Orders :
              /\ \A c \in Items(get_contacts(skip, limit, user, contacts, order)) :
                    c.user_id = user.id
              /\ \A q \in Queries \ {None} :
                    LET found == search_contacts(q, skip, limit, user, contacts, order)
                    IN  found # None => \A c \in Items(found) : c.user_id = user.id

\* Both users hold contacts, one contact has been deleted, and a user asks
\* for the id of a contact of the other.
C23_Witness ==
    /\ \A user \in CurrentUsers : Owned(user) # {}
    /\ lastId > Cardinality(DOMAIN contacts)
    /\ \E user \in CurrentUsers, contact_id \in DOMAIN contacts :
          /\ contact_id \notin Owned(user)
          /\ delete_contact(contact_id, user, contacts).value = None

\* q occurs in the text of column, letter case aside.
Occurs(q, column) ==
    /\ column # None
    /\ \E k \in 0..(Len(column.text) - Len(q.text)) :
          SubSeq(lower(column), k + 1, k + Len(q.text)) = lower(q)

\* C24: search_contacts(q) returns every contact of the current user in
\* which q occurs, letter case aside, in the first name, the last name or
\* the email (skip 0 and a limit that cuts nothing off).
C24_SearchAnyField ==
    \A user \in CurrentUsers, q \in Queries \ {None, Text(<<>>)}, order \in Orders :
        LET found == search_contacts(q, 0, MaxContactId, user, contacts, order)
        IN  \A i \in Owned(user) :
                (\/ Occurs(q, contacts[i].first_name)
                 \/ Occurs(q, contacts[i].last_name)
                 \/ Occurs(q, contacts[i].email))
                    => (found # None /\ contacts[i] \in Items(found))

\* The anniversary of birthday in the year of today or in the next year
\* falls after today and no later than days days after it.
Upcoming(birthday, today, days) ==
    /\ birthday # None
    /\ \E year \in {today.year, today.year + 1} :
          /\ replace_year_valid(birthday, year)
          /\ toordinal(replace_year(birthday, year)) > toordinal(today)
          /\ toordinal(replace_year(birthday, year)) <= toordinal(today) + days

\* C25: get_upcoming_birthdays(days) returns the contacts of the current
\* user whose birthday anniversary falls after today and no later than
\* today + days, and None when there is none.
C25_UpcomingBirthdays ==
    \A days \in Days, user \in CurrentUsers, order \in Orders, today \in Todays :
        LET r == get_upcoming_birthdays(days, user, contacts, order, today)
            expected == {contacts[i] : i \in {j \in Owned(user) :
                            Upcoming(contacts[j].birthday, today, days)}}
        IN  /\ r.error = None
            /\ expected = {} => r.value = None
            /\ expected # {} => (r.value # None /\ Items(r.value) = expected)

\* C26: GET /contacts/ answers 404 "No contacts were found" whenever no
\* contact of the current user matches, without and with a search query, and
\* ends in no other error.
C26_EmptyListingIs404 ==
    \A query \in Queries, skip \in Skips, limit \in Limits,
       user \in CurrentUsers, order \in Orders :
        LET r == read_contacts(query, skip, limit, user, contacts, order)
        IN  /\ r.error = None => Items(r.value) # {}
            /\ r.error # None =>
                  (r.error.status = 404 /\ r.error.detail = "No contacts were found")

\* The table without the rows of the users other than user.
OwnOnly(user) == [i \in Owned(user) |-> contacts[i]]

\* C30: the outcome of create_contact for a user (the contact returned or
\* the error with its detail) is the outcome the same request has on a table
\* that holds the contacts of this user only.
C30_NonInterference ==
    \A user \in CurrentUsers, body \in ContactModels :
        LET here == create_contact(body, user, contacts, lastId + 1)
            alone == create_contact(body, user, OwnOnly(user), lastId + 1)
        IN  here.value = alone.value /\ here.error = alone.error

\* C27: the stored refresh token of every user is absent or a token that
\* create_refresh_token has issued, with scope refresh_token, for the email
\* of that same user.
C27_StoredTokenIsOwn ==
    \A e \in DOMAIN users :
        LET token == users[e].refresh_token
        IN  token # None =>
                /\ token \in issued
                /\ token = create_refresh_token([sub |-> e], token.payload.iat)
                /\ IsRefresh(token) /\ Subject(token) = e

\* After a rotation one user has a stored refresh token while another user
\* has none.
C27_Witness ==
    \E e \in DOMAIN users, f \in DOMAIN users :
        /\ users[e].refresh_token \in rotated
        /\ Subject(users[e].refresh_token) = e
        /\ users[f].refresh_token = None

\* A user with a stored refresh token is confirmed, and login and refresh
\* hand out tokens only for a user who is confirmed at that moment.
ConfirmedBeforeTokens ==
    /\ \A e \in DOMAIN users : users[e].refresh_token # None => users[e].confirmed
    /\ \A username \in Emails, password \in Passwords :
          ~Failed(login(username, password, users, now)) => users[username].confirmed
    /\ \A token \in Presentable :
          ~Failed(get_refresh_token(token, users, now)) => users[Subject(token)].confirmed

\* No step takes the confirmed flag of a user back, and the step that sets
\* it is an email confirmation.
ConfirmedMonotonic ==
    \A e \in DOMAIN users \cap DOMAIN users' :
        /\ users[e].confirmed => users'[e].confirmed
        /\ (~users[e].confirmed /\ users'[e].confirmed) => resp'.op = "confirmed_email"

\* C28: the confirmed flag of a user never goes back from true to false and
\* is set by email confirmation only; a user whose stored refresh token is
\* present is confirmed; no access or refresh token is issued for a user who
\* is unconfirmed at that time.
C28_ConfirmedGuardsTokens == []ConfirmedBeforeTokens /\ [][ConfirmedMonotonic]_vars

\* A confirmed user has logged in while another user is still unconfirmed
\* and holds no stored refresh token.
C28_Witness ==
    /\ resp.op = "login" /\ resp.status = 201
    /\ \E e \in DOMAIN users, f \in DOMAIN users :
          /\ users[e].confirmed /\ users[e].refresh_token # None
          /\ ~users[f].confirmed /\ users[f].refresh_token = None

\* C29: however concurrent signup requests interleave, the table holds at
\* most one user per email and per username, and every signup request ends
\* with 201 or with 409 "User already exists".
C29_ConcurrentSignup ==
    /\ \A e \in DOMAIN users, f \in DOMAIN users :
          /\ users[e].user_email = e
          /\ e # f => users[e].username # users[f].username
    /\ \A r \in Reqs :
          outcome[r] # None =>
              \/ outcome[r].status = 201
              \/ outcome[r].status = 409 /\ outcome[r].detail = "User already exists"

====
